---- MODULE Spec2Model ----
(***************************************************************************)
(* A model of the simplexml dom package: the Element tree (element.go),    *)
(* the recursive tree builder (parseElement, ParseElementsWithOptions,      *)
(* ParseWithOptions) and the namespace-aware encoder (Element.Encode).      *)
(* Byte strings are sequences of one-character strings, so that escaping,  *)
(* trimming and tokenizing are computed character by character.            *)
(***************************************************************************)
EXTENDS Integers, Sequences, FiniteSets, TLC

\* ------------------------------------------------------------ bounds
\* Elements the API specification may allocate.
MaxElements == 3

\* The nil pointer (*Element)(nil); element ids are 1..Len(heap).
Nil == 0

\* Tokens one ParseElements call may read before the token source ends.
MaxTokens == 6

\* Elements of a tree handed to Encode.
MaxNodes == 3

\* Writes the byte sink may fail in one Encode call.
MaxFailures == 1

VARIABLES
    heap,     \* the allocated Elements: id -> [Name, children, parent, Content, Attributes]
    last,     \* the last API call and what it saw before acting (history)
    res,      \* what the last Children() call returned
    pc,       \* where the tree builder is: idle, top, frame, ret, done
    stream,   \* the token source: [mode, budget, rest, open, needClose]
    stack,    \* the open parseElement frames, innermost last: each frame's res
    ret,      \* what the parseElement call that just returned gave: [res, err]
    elements, \* ParseElementsWithOptions' elements
    peRes,    \* what ParseElementsWithOptions returned: [elements, err]
    pRes,     \* what ParseWithOptions returned: [doc, err]
    seen,     \* what the token source delivered, by token type alone (history)
    enc,      \* the Encoder: [nsURLMap, nsPrefixMap, depth, pretty, started]
    epc,      \* where the serialization is: idle, run, ret, done
    estack,   \* the open Encode frames, innermost last
    eret,     \* the err the Encode call that just returned gave
    eres,     \* the err the outermost Encode call returned
    wlog,     \* every write handed to the byte sink: [node, text, ok] (history)
    sink      \* the byte sink: [sticky, failed, left]

treeVars == <<heap, last, res>>
parseVars == <<pc, stream, stack, ret, elements, peRes, pRes, seen>>
encVars == <<enc, epc, estack, eret, eres, wlog, sink>>
vars == <<heap, last, res, pc, stream, stack, ret, elements, peRes, pRes, seen,
          enc, epc, estack, eret, eres, wlog, sink>>

\* ------------------------------------------------------------ element.go

\* xml.Name{Space, Local}
XmlName(space, local) == [Space |-> space, Local |-> local]

\* Go's builtin copy(dst, src): min(len(dst), len(src)) elements are copied.
copy(dst, src) ==
    [i \in 1..Len(dst) |-> IF i <= Len(src) THEN src[i] ELSE dst[i]]

\* Go's make([]T, n, cap): a slice of n zero values (the capacity is not length).
make(n) == [i \in 1..n |-> Nil]

\* CreateElement: a parentless element with no children, attributes or content.
CreateElement(n) ==
    [Name |-> n, children |-> <<>>, parent |-> Nil,
     Content |-> <<>>, Attributes |-> <<>>]

\* The index of the first occurrence of child in s, 0 when there is none
\* (the loop of RemoveChild, with p = -1 as 0).
IndexOf(s, child) ==
    IF \E i \in 1..Len(s) : s[i] = child
    THEN CHOOSE i \in 1..Len(s) : s[i] = child /\ \A j \in 1..(i - 1) : s[j] # child
    ELSE 0

\* RemoveChild without the reslice of line 65: the last child stays, doubled.
RemoveChildNoShrink(h, node, child) ==
    LET c == h[node].children
        p == IndexOf(c, child)
        shifted == SubSeq(c, 1, p - 1)
                   \o copy(SubSeq(c, p, Len(c)), SubSeq(c, p + 1, Len(c)))
        h1 == [h EXCEPT ![node].children = shifted]
    IN  IF p = 0 THEN h ELSE [h1 EXCEPT ![child].parent = Nil]

\* RemoveChild, as the heap it leaves.
RemoveChild(h, node, child) ==
    LET c == h[node].children
        p == IndexOf(c, child)
        shifted == SubSeq(c, 1, p - 1)
                   \o copy(SubSeq(c, p, Len(c)), SubSeq(c, p + 1, Len(c)))
        h1 == [h EXCEPT ![node].children = SubSeq(shifted, 1, Len(c) - 1)]
    IN  IF p = 0 THEN h ELSE [h1 EXCEPT ![child].parent = Nil]

\* AddChild without the detach of lines 42-44.
AddChildNoDetach(h, node, child) ==
    LET h2 == [h EXCEPT ![child].parent = node]
    IN  [h2 EXCEPT ![node].children = Append(@, child)]

\* AddChild: detach from the prior parent, set the back-reference, append.
AddChild(h, node, child) ==
    LET h1 == IF h[child].parent # Nil
              THEN RemoveChild(h, h[child].parent, child)
              ELSE h
        h2 == [h1 EXCEPT ![child].parent = node]
    IN  [h2 EXCEPT ![node].children = Append(@, child)]

\* SetParent: parent.AddChild(node).
SetParent(h, node, parent) == AddChild(h, parent, node)

\* Children: copy into a slice made with length 0.
Children(h, node) == copy(make(0), h[node].children)

\* AddAttr
AddAttr(h, node, attr) == [h EXCEPT ![node].Attributes = Append(@, attr)]

\* ------------------------------------------------------------ API calls

Ids == 1..Len(heap)

Call(op, node, child) ==
    [op |-> op, node |-> node, child |-> child,
     prev |-> IF child = Nil THEN Nil ELSE heap[child].parent,
     prevKids |-> IF child = Nil \/ heap[child].parent = Nil THEN <<>>
                  ELSE heap[heap[child].parent].children,
     nodeKids |-> IF node = Nil THEN <<>> ELSE heap[node].children]

NoCall == [op |-> "none", node |-> Nil, child |-> Nil, prev |-> Nil,
           prevKids |-> <<>>, nodeKids |-> <<>>]

CreateElementCall ==
    /\ Len(heap) < MaxElements
    /\ heap' = Append(heap, CreateElement(XmlName(<<>>, <<"a">>)))
    /\ last' = [NoCall EXCEPT !.op = "CreateElement", !.node = Len(heap) + 1]
    /\ UNCHANGED <<res, parseVars, encVars>>

AddChildCall ==
    \E node \in Ids, child \in Ids :
        /\ heap' = AddChild(heap, node, child)
        /\ last' = Call("AddChild", node, child)
        /\ UNCHANGED <<res, parseVars, encVars>>

RemoveChildCall ==
    \E node \in Ids, child \in Ids :
        /\ heap' = RemoveChild(heap, node, child)
        /\ last' = Call("RemoveChild", node, child)
        /\ UNCHANGED <<res, parseVars, encVars>>

SetParentCall ==
    \E node \in Ids, parent \in Ids :
        /\ heap' = SetParent(heap, node, parent)
        /\ last' = Call("SetParent", parent, node)
        /\ UNCHANGED <<res, parseVars, encVars>>

ChildrenCall ==
    \E node \in Ids :
        /\ res' = Children(heap, node)
        /\ last' = Call("Children", node, Nil)
        /\ UNCHANGED <<heap, parseVars, encVars>>

\* ------------------------------------------------------------ tree builder

None == "nil"
TooManyRootElements == "More than one root Element not allowed!"

Whitespace == {" ", "\t", "\n", "\r"}

\* bytes.TrimSpace: leading and trailing white space is cut.
RECURSIVE TrimLeft(_)
TrimLeft(s) ==
    IF s # <<>> /\ Head(s) \in Whitespace THEN TrimLeft(Tail(s)) ELSE s

RECURSIVE TrimRight(_)
TrimRight(s) ==
    IF s # <<>> /\ s[Len(s)] \in Whitespace
    THEN TrimRight(SubSeq(s, 1, Len(s) - 1)) ELSE s

TrimSpace(s) == TrimRight(TrimLeft(s))

\* The tokens of encoding/xml the builder tells apart.
StartElement(name, attr) == [type |-> "StartElement", Name |-> name, Attr |-> attr]
EndElement == [type |-> "EndElement"]
CharData(data) == [type |-> "CharData", data |-> data]

NoToken == [type |-> "nil"]

XmlAttr(name, value) == [Name |-> name, Value |-> value]

\* The tokens the token source delivers in this model.
Texts == {<<" ">>, <<" ", "x", " ">>, <<"y">>}
Tokens ==
    {StartElement(XmlName(<<>>, <<"a">>), <<>>),
     StartElement(XmlName(<<>>, <<"b">>),
                  <<XmlAttr(XmlName(<<>>, <<"k">>), <<"v">>)>>),
     EndElement}
    \cup {CharData(t) : t \in Texts}

\* The token source. In mode "any" it delivers any tokens, budget of them at
\* most; in mode "bytes" it tokenizes rest, with the names of the open elements
\* and the pending end of an empty-element tag.
AnyStream(n) ==
    [mode |-> "any", budget |-> n, rest |-> <<>>, open |-> <<>>, needClose |-> FALSE]
ByteStream(bytes) ==
    [mode |-> "bytes", budget |-> 0, rest |-> bytes, open |-> <<>>, needClose |-> FALSE]

NameChars == {"a", "b", "c", "d", "j", "k", "n", "p", "v", "x", "0", "1", "2", "3", "4"}
EntityChars == NameChars \cup {"l", "t", "g", "m", "q", "u", "o", "s", "#", "A"}

RECURSIVE ReadName(_, _)
ReadName(s, acc) ==
    IF s # <<>> /\ Head(s) \in NameChars
    THEN ReadName(Tail(s), Append(acc, Head(s)))
    ELSE [name |-> acc, rest |-> s]

RECURSIVE SkipSpace(_)
SkipSpace(s) ==
    IF s # <<>> /\ Head(s) \in Whitespace THEN SkipSpace(Tail(s)) ELSE s

RECURSIVE ReadEntityName(_, _)
ReadEntityName(s, acc) ==
    IF s # <<>> /\ Head(s) \in EntityChars
    THEN ReadEntityName(Tail(s), Append(acc, Head(s)))
    ELSE [name |-> acc, rest |-> s]

\* The character an entity stands for, "" when it is none the decoder knows.
EntityValue(n) ==
    CASE n = <<"l", "t">> -> "<"
      [] n = <<"g", "t">> -> ">"
      [] n = <<"a", "m", "p">> -> "&"
      [] n = <<"q", "u", "o", "t">> -> "\""
      [] n = <<"#", "3", "4">> -> "\""
      [] n = <<"#", "x", "A">> -> "\n"
      [] OTHER -> ""

\* Decoder.text: character data up to "<" (quote = ""), or an attribute value up
\* to its closing quote; entities are decoded, and in strict mode a bad entity,
\* a "<" inside a quoted value and an unterminated value are syntax errors.
RECURSIVE ReadText(_, _, _)
ReadText(s, quote, acc) ==
    IF s = <<>>
    THEN [ok |-> quote = "", data |-> acc, rest |-> s]
    ELSE IF quote # "" /\ Head(s) = quote
    THEN [ok |-> TRUE, data |-> acc, rest |-> Tail(s)]
    ELSE IF Head(s) = "<"
    THEN [ok |-> quote = "", data |-> acc, rest |-> s]
    ELSE IF Head(s) = "&"
    THEN LET e == ReadEntityName(Tail(s), <<>>)
         IN  IF e.rest = <<>> \/ Head(e.rest) # ";" \/ EntityValue(e.name) = ""
             THEN [ok |-> FALSE, data |-> acc, rest |-> s]
             ELSE ReadText(Tail(e.rest), quote, Append(acc, EntityValue(e.name)))
    ELSE ReadText(Tail(s), quote, Append(acc, Head(s)))

\* The attributes of a start-tag, to its ">" or "/>".
RECURSIVE ReadAttrs(_, _)
ReadAttrs(s0, acc) ==
    LET s == SkipSpace(s0)
        bad == [ok |-> FALSE, attrs |-> acc, empty |-> FALSE, rest |-> s]
    IN  IF s = <<>> THEN bad
        ELSE IF Head(s) = "/"
        THEN IF Len(s) >= 2 /\ s[2] = ">"
             THEN [ok |-> TRUE, attrs |-> acc, empty |-> TRUE, rest |-> SubSeq(s, 3, Len(s))]
             ELSE bad
        ELSE IF Head(s) = ">"
        THEN [ok |-> TRUE, attrs |-> acc, empty |-> FALSE, rest |-> Tail(s)]
        ELSE LET n == ReadName(s, <<>>)
                 s1 == SkipSpace(n.rest)
                 s2 == SkipSpace(Tail(s1))
                 v == ReadText(Tail(s2), Head(s2), <<>>)
             IN  IF n.name = <<>> \/ s1 = <<>> \/ Head(s1) # "=" THEN bad
                 ELSE IF s2 = <<>> \/ Head(s2) \notin {"\"", "'"} THEN bad
                 ELSE IF ~v.ok THEN bad
                 ELSE ReadAttrs(v.rest, Append(acc, XmlAttr(XmlName(<<>>, n.name), v.data)))

\* Decoder.Token on bytes, in strict mode. Names here carry no prefix.
LexNext(st) ==
    LET s == st.rest
        fail == [tok |-> NoToken, err |-> "SyntaxError", next |-> st]
        pop == SubSeq(st.open, 1, Len(st.open) - 1)
    IN  IF st.needClose
        THEN [tok |-> EndElement, err |-> None,
              next |-> [st EXCEPT !.needClose = FALSE, !.open = pop]]
        ELSE IF s = <<>>
        THEN IF st.open = <<>> THEN [tok |-> NoToken, err |-> "EOF", next |-> st] ELSE fail
        ELSE IF Head(s) # "<"
        THEN LET t == ReadText(s, "", <<>>)
             IN  IF t.ok THEN [tok |-> CharData(t.data), err |-> None,
                               next |-> [st EXCEPT !.rest = t.rest]]
                 ELSE fail
        ELSE IF Len(s) >= 2 /\ s[2] = "/"
        THEN LET n == ReadName(SubSeq(s, 3, Len(s)), <<>>)
                 s1 == SkipSpace(n.rest)
             IN  IF n.name = <<>> \/ s1 = <<>> \/ Head(s1) # ">" THEN fail
                 ELSE IF st.open = <<>> \/ st.open[Len(st.open)] # n.name THEN fail
                 ELSE [tok |-> EndElement, err |-> None,
                       next |-> [st EXCEPT !.rest = Tail(s1), !.open = pop]]
        ELSE LET n == ReadName(Tail(s), <<>>)
                 a == ReadAttrs(n.rest, <<>>)
             IN  IF n.name = <<>> \/ ~a.ok THEN fail
                 ELSE [tok |-> StartElement(XmlName(<<>>, n.name), a.attrs), err |-> None,
                       next |-> [st EXCEPT !.rest = a.rest,
                                           !.open = Append(@, n.name),
                                           !.needClose = a.empty]]

\* decoder.Token(): a token, or an error (io.EOF at the end of the stream, a
\* syntax error anywhere).
TokenResults ==
    IF stream.mode = "bytes" THEN {LexNext(stream)}
    ELSE {[tok |-> NoToken, err |-> e, next |-> stream] : e \in {"EOF", "SyntaxError"}}
         \cup (IF stream.budget > 0
               THEN {[tok |-> t, err |-> None, next |-> [stream EXCEPT !.budget = @ - 1]] :
                     t \in Tokens}
               ELSE {})

\* parseElement lines 13-16: the new element with the tag's attributes.
RECURSIVE AddAttrs(_, _, _)
AddAttrs(h, node, attrs) ==
    IF attrs = <<>> THEN h
    ELSE AddAttrs(AddAttr(h, node, Head(attrs)), node, Tail(attrs))

NewElement(h, tok) ==
    AddAttrs(Append(h, CreateElement(tok.Name)), Len(h) + 1, tok.Attr)

\* SetContent without the length test of line 28.
SetContentAlways(h, node, data) ==
    [h EXCEPT ![node].Content = TrimSpace(data)]

\* parseElement lines 26-30: non-blank trimmed text replaces the content.
SetContent(h, node, data) ==
    LET content == TrimSpace(data)
    IN  IF Len(content) > 0 THEN [h EXCEPT ![node].Content = content] ELSE h

\* parseElement's returns: lines 20-22 and 33-35 (an error), line 25 (the end-tag).
ErrReturnPartial(node, err) == [res |-> node, err |-> err]
ErrReturn(node, err) == [res |-> Nil, err |-> err]
EndReturn(node) == [res |-> node, err |-> None]

\* Document: CreateDocument and SetRoot. A *Document is the sequence of the one
\* Document it points to, the nil *Document the empty sequence.
NilDocument == <<>>
CreateDocument == <<[root |-> Nil]>>
SetRoot(doc, e) == <<[doc[1] EXCEPT !.root = e]>>

\* ParseWithOptions with the root count tested one too high.
ParseWithOptionsOffByOne(els, err) ==
    IF err # None THEN [doc |-> NilDocument, err |-> err]
    ELSE IF Len(els) > 2 THEN [doc |-> NilDocument, err |-> TooManyRootElements]
    ELSE IF Len(els) >= 1 THEN [doc |-> SetRoot(CreateDocument, els[1]), err |-> None]
    ELSE [doc |-> CreateDocument, err |-> None]

\* ParseWithOptions lines 102-113, from what ParseElementsWithOptions returned.
ParseWithOptions(els, err) ==
    IF err # None THEN [doc |-> NilDocument, err |-> err]
    ELSE IF Len(els) > 1 THEN [doc |-> NilDocument, err |-> TooManyRootElements]
    ELSE IF Len(els) = 1 THEN [doc |-> SetRoot(CreateDocument, els[1]), err |-> None]
    ELSE [doc |-> CreateDocument, err |-> None]

\* What the stream held, told from the token types alone: the nesting depth, the
\* names of the top-level start-tags read and of those whose end-tag was read,
\* the text tokens of each open element, and how the stream ended.
NoSeen == [depth |-> 0, top |-> <<>>, topClosed |-> <<>>, texts |-> <<>>,
           closedTexts |-> <<>>, end |-> None, endDepth |-> 0]

Observe(g, r) ==
    IF r.err # None THEN [g EXCEPT !.end = r.err, !.endDepth = g.depth]
    ELSE IF r.tok.type = "StartElement"
    THEN [g EXCEPT !.depth = @ + 1,
                   !.top = IF g.depth = 0 THEN Append(@, r.tok.Name) ELSE @,
                   !.texts = Append(@, <<>>)]
    ELSE IF r.tok.type = "EndElement" /\ g.depth > 0
    THEN [g EXCEPT !.depth = @ - 1,
                   !.topClosed = IF g.depth = 1 THEN Append(@, g.top[Len(g.top)]) ELSE @,
                   !.texts = SubSeq(@, 1, Len(@) - 1),
                   !.closedTexts = g.texts[Len(g.texts)]]
    ELSE IF r.tok.type = "CharData" /\ g.depth > 0
    THEN [g EXCEPT !.texts[Len(g.texts)] = Append(@, r.tok.data)]
    ELSE g

NoRet == [res |-> Nil, err |-> None]
NoResult == [elements |-> <<>>, err |-> None]
NoDoc == [doc |-> NilDocument, err |-> None]

\* ParseElementsWithOptions returns: Parse's own result follows from it.
Return(els, err) ==
    /\ peRes' = [elements |-> els, err |-> err]
    /\ pRes' = ParseWithOptions(els, err)
    /\ pc' = "done"

\* ParseElementsWithOptions lines 66-72.
StartParse(st) ==
    /\ pc = "idle"
    /\ pc' = "top"
    /\ stream' = st
    /\ stack' = <<>>
    /\ ret' = NoRet
    /\ elements' = <<>>
    /\ peRes' = NoResult
    /\ pRes' = NoDoc
    /\ seen' = NoSeen
    /\ UNCHANGED <<treeVars, encVars>>

\* One turn of ParseElementsWithOptions' loop, lines 73-89.
TopToken ==
    /\ pc = "top"
    /\ \E r \in TokenResults :
        /\ seen' = Observe(seen, r)
        /\ stream' = r.next
        /\ \/ /\ r.err = "EOF"
              /\ Return(elements, None)
              /\ UNCHANGED <<heap, stack, elements>>
           \/ /\ r.err \notin {None, "EOF"}
              /\ Return(elements, r.err)
              /\ UNCHANGED <<heap, stack, elements>>
           \/ /\ r.err = None /\ r.tok.type = "StartElement"
              /\ heap' = NewElement(heap, r.tok)
              /\ stack' = <<Len(heap) + 1>>
              /\ pc' = "frame"
              /\ UNCHANGED <<elements, peRes, pRes>>
           \/ /\ r.err = None /\ r.tok.type # "StartElement"
              /\ UNCHANGED <<heap, stack, elements, peRes, pRes, pc>>
    /\ UNCHANGED <<last, res, ret, encVars>>

\* One turn of parseElement's loop, lines 18-37, in the innermost frame.
FrameToken ==
    /\ pc = "frame"
    /\ LET node == stack[Len(stack)] IN
       \E r \in TokenResults :
        /\ seen' = Observe(seen, r)
        /\ stream' = r.next
        /\ \/ /\ r.err # None
              /\ ret' = ErrReturn(node, r.err)
              /\ stack' = SubSeq(stack, 1, Len(stack) - 1)
              /\ pc' = "ret"
              /\ UNCHANGED heap
           \/ /\ r.err = None /\ r.tok.type = "EndElement"
              /\ ret' = EndReturn(node)
              /\ stack' = SubSeq(stack, 1, Len(stack) - 1)
              /\ pc' = "ret"
              /\ UNCHANGED heap
           \/ /\ r.err = None /\ r.tok.type = "CharData"
              /\ heap' = SetContent(heap, node, r.tok.data)
              /\ UNCHANGED <<ret, stack, pc>>
           \/ /\ r.err = None /\ r.tok.type = "StartElement"
              /\ heap' = NewElement(heap, r.tok)
              /\ stack' = Append(stack, Len(heap) + 1)
              /\ UNCHANGED <<ret, pc>>
    /\ UNCHANGED <<last, res, elements, peRes, pRes, encVars>>

\* parseElement returned to parseElement, lines 32-36.
ResumeFrame ==
    /\ pc = "ret"
    /\ stack # <<>>
    /\ LET node == stack[Len(stack)] IN
       \/ /\ ret.err # None
          /\ ret' = ErrReturn(node, ret.err)
          /\ stack' = SubSeq(stack, 1, Len(stack) - 1)
          /\ UNCHANGED <<heap, pc>>
       \/ /\ ret.err = None
          /\ heap' = AddChild(heap, node, ret.res)
          /\ pc' = "frame"
          /\ UNCHANGED <<ret, stack>>
    /\ UNCHANGED <<last, res, stream, elements, peRes, pRes, seen, encVars>>

\* parseElement returned to ParseElementsWithOptions, lines 83-87.
ResumeTop ==
    /\ pc = "ret"
    /\ stack = <<>>
    /\ \/ /\ ret.err # None
          /\ Return(elements, ret.err)
          /\ UNCHANGED elements
       \/ /\ ret.err = None
          /\ elements' = Append(elements, ret.res)
          /\ pc' = "top"
          /\ UNCHANGED <<peRes, pRes>>
    /\ UNCHANGED <<heap, last, res, stream, stack, ret, seen, encVars>>

\* ------------------------------------------------------------ encoder

XMLNS == <<"x", "m", "l", "n", "s">>
WriteError == "write error"
Panic == "panic"

\* A Go map, as the function from its keys.
EmptyMap == [k \in {} |-> <<>>]
Put(m, k, v) == [x \in (DOMAIN m) \cup {k} |-> IF x = k THEN v ELSE m[x]]

\* NewEncoder, and Pretty().
NewEncoder ==
    [nsURLMap |-> EmptyMap, nsPrefixMap |-> EmptyMap, depth |-> 0,
     pretty |-> FALSE, started |-> FALSE]

\* The prefixes the resolver makes up, in the order it tries them.
FreshPrefixes == << <<"n", "0">>, <<"n", "1">>, <<"n", "2">>, <<"n", "3">>, <<"n", "4">> >>
Fresh(e) ==
    LET free == {i \in 1..Len(FreshPrefixes) : FreshPrefixes[i] \notin DOMAIN e.nsPrefixMap}
    IN  FreshPrefixes[CHOOSE i \in free : \A j \in free : i <= j]

\* Encoder.addNamespace: the empty URI and a URI already bound are left alone;
\* otherwise the URI is bound to the prefix asked for, or to a fresh one.
addNamespace(e, ns, prefix) ==
    IF ns = <<>> \/ ns \in DOMAIN e.nsURLMap THEN e
    ELSE LET p == IF prefix = <<>> THEN Fresh(e) ELSE prefix
         IN  [e EXCEPT !.nsURLMap = Put(@, ns, p), !.nsPrefixMap = Put(@, p, ns)]

\* addNamespaces lines 97-101: the xmlns attributes, with their prefixes.
RECURSIVE addDeclared(_, _)
addDeclared(e, attrs) ==
    IF attrs = <<>> THEN e
    ELSE LET a == Head(attrs)
         IN  addDeclared(IF a.Name.Space = XMLNS
                         THEN addNamespace(e, a.Value, a.Name.Local) ELSE e,
                         Tail(attrs))

\* addNamespaces lines 104-106: the namespace of every attribute name.
RECURSIVE addAttrSpaces(_, _)
addAttrSpaces(e, attrs) ==
    IF attrs = <<>> THEN e
    ELSE addAttrSpaces(addNamespace(e, Head(attrs).Name.Space, <<>>), Tail(attrs))

\* addNamespaces: this node, then its children in order.
RECURSIVE addNamespaces(_, _, _)
RECURSIVE addChildNamespaces(_, _, _)
addNamespaces(h, node, e) ==
    LET e1 == addDeclared(e, h[node].Attributes)
        e2 == addNamespace(e1, h[node].Name.Space, <<>>)
        e3 == addAttrSpaces(e2, h[node].Attributes)
    IN  addChildNamespaces(h, h[node].children, e3)

addChildNamespaces(h, kids, e) ==
    IF kids = <<>> THEN e
    ELSE addChildNamespaces(h, Tail(kids), addNamespaces(h, Head(kids), e))

\* namespacedName: the name as written, or the panic of line 121.
namespacedName(e, name) ==
    IF name.Space = <<>> THEN [panic |-> FALSE, s |-> name.Local]
    ELSE IF name.Space = XMLNS THEN [panic |-> FALSE, s |-> name.Space \o <<":">> \o name.Local]
    ELSE IF name.Space \notin DOMAIN e.nsURLMap THEN [panic |-> TRUE, s |-> <<>>]
    ELSE [panic |-> FALSE, s |-> e.nsURLMap[name.Space] \o <<":">> \o name.Local]

\* xml.EscapeText, on the characters of this model.
EscapeChar(c) ==
    CASE c = "<" -> <<"&", "l", "t", ";">>
      [] c = ">" -> <<"&", "g", "t", ";">>
      [] c = "&" -> <<"&", "a", "m", "p", ";">>
      [] c = "\"" -> <<"&", "#", "3", "4", ";">>
      [] c = "\n" -> <<"&", "#", "x", "A", ";">>
      [] OTHER -> <<c>>

RECURSIVE EscapeText(_)
EscapeText(s) ==
    IF s = <<>> THEN <<>> ELSE EscapeChar(Head(s)) \o EscapeText(Tail(s))

\* What each write of Encode formats.
OpenText(n) == <<"<">> \o n
AttrTextNoSpace(n, v) == n \o <<"=", "\"">> \o v \o <<"\"">>
AttrText(n, v) == <<" ">> \o n \o <<"=", "\"">> \o v \o <<"\"">>
DeclText(prefix, uri) ==
    <<" ">> \o XMLNS \o <<":">> \o prefix \o <<"=", "\"">> \o uri \o <<"\"">>
EndText(n) == <<"<", "/">> \o n \o <<">">>

\* Encoder.spaces and Encoder.prettyEnd: what they write (nothing when compact).
spaces(e) == IF e.pretty THEN [i \in 1..e.depth |-> " "] ELSE <<>>
prettyEnd(e) == IF e.pretty THEN <<"\n">> ELSE <<>>

\* One write to the sink: it succeeds, or it fails (a sticky sink fails ever after).
WriteOutcomes ==
    IF sink.sticky /\ sink.failed THEN {[ok |-> FALSE, sink |-> sink]}
    ELSE {[ok |-> TRUE, sink |-> sink]}
         \cup (IF sink.left > 0
               THEN {[ok |-> FALSE,
                      sink |-> [sink EXCEPT !.left = @ - 1, !.failed = TRUE]]}
               ELSE {})

Frame(node) == [node |-> node, at |-> "enter", i |-> 1, wn |-> FALSE, left |-> {}]
Top == estack[Len(estack)]

Attempt(node, text, w) ==
    /\ wlog' = Append(wlog, [node |-> node, text |-> text, ok |-> w.ok])
    /\ sink' = w.sink

Goto(f) ==
    /\ estack' = [estack EXCEPT ![Len(estack)] = f]
    /\ UNCHANGED <<epc, eret, eres>>

\* return err: to the calling Encode frame, or to the caller of the outermost.
ReturnE(err) ==
    /\ estack' = SubSeq(estack, 1, Len(estack) - 1)
    /\ IF Len(estack) = 1
       THEN epc' = "done" /\ eres' = err /\ UNCHANGED eret
       ELSE epc' = "ret" /\ eret' = err /\ UNCHANGED eres

\* A write whose error is returned at once (if err != nil { return err }).
WriteThen(text, f) ==
    IF text = <<>> THEN Goto(f) /\ UNCHANGED <<wlog, sink>>
    ELSE \E w \in WriteOutcomes :
            /\ Attempt(Top.node, text, w)
            /\ IF w.ok THEN Goto(f) ELSE ReturnE(WriteError)

\* A write whose error is dropped: lines 170 and 172.
WriteUnchecked(text, f) ==
    \E w \in WriteOutcomes : Attempt(Top.node, text, w) /\ Goto(f)

\* A write whose result is the frame's result: lines 164-168 and 193.
WriteReturn(text) ==
    IF text = <<>> THEN ReturnE(None) /\ UNCHANGED <<wlog, sink>>
    ELSE \E w \in WriteOutcomes :
            /\ Attempt(Top.node, text, w)
            /\ ReturnE(IF w.ok THEN None ELSE WriteError)

\* log.Panicf: every frame is gone.
Panicked ==
    /\ estack' = <<>>
    /\ epc' = "done"
    /\ eres' = Panic
    /\ UNCHANGED <<eret, wlog, sink>>

\* The next attribute at or after i that line 143 does not skip, 0 if none.
NextAttr(attrs, i) ==
    LET js == {j \in i..Len(attrs) : attrs[j].Name.Space # XMLNS}
    IN  IF js = {} THEN 0 ELSE CHOOSE j \in js : \A k \in js : j <= k

\* Where the frame goes after attribute i - 1: the next attribute, the
\* declarations (first element only), or the end of the opening tag.
AfterAttrs(f, i) ==
    LET j == NextAttr(heap[f.node].Attributes, i)
    IN  IF j # 0 THEN [f EXCEPT !.at = "attr", !.i = j]
        ELSE IF f.wn /\ DOMAIN enc.nsPrefixMap # {}
        THEN [f EXCEPT !.at = "decl", !.left = DOMAIN enc.nsPrefixMap]
        ELSE [f EXCEPT !.at = "close"]

\* Encode lines 129-137: discovery on the first element, then the indentation.
EncEnter ==
    /\ epc = "run" /\ Top.at = "enter"
    /\ LET wn == ~enc.started
           e1 == IF wn THEN [addNamespaces(heap, Top.node, enc) EXCEPT !.started = TRUE]
                 ELSE enc
       IN  /\ enc' = e1
           /\ WriteThen(spaces(e1), [Top EXCEPT !.at = "open", !.wn = wn])
    /\ UNCHANGED <<treeVars, parseVars>>

\* Encode lines 138-141: "<name".
EncOpen ==
    /\ epc = "run" /\ Top.at = "open"
    /\ LET n == namespacedName(enc, heap[Top.node].Name)
       IN  IF n.panic THEN Panicked
           ELSE WriteThen(OpenText(n.s), AfterAttrs(Top, 1))
    /\ UNCHANGED <<treeVars, parseVars, enc>>

\* Encode lines 142-150: one attribute that is not an xmlns attribute.
EncAttr ==
    /\ epc = "run" /\ Top.at = "attr"
    /\ LET a == heap[Top.node].Attributes[Top.i]
           n == namespacedName(enc, a.Name)
       IN  IF n.panic THEN Panicked
           ELSE WriteThen(AttrText(n.s, a.Value), AfterAttrs(Top, Top.i + 1))
    /\ UNCHANGED <<treeVars, parseVars, enc>>

\* Encode lines 151-158: one entry of nsPrefixMap, in the map's own order.
EncDecl ==
    /\ epc = "run" /\ Top.at = "decl"
    /\ \E prefix \in Top.left :
        WriteThen(DeclText(prefix, enc.nsPrefixMap[prefix]),
                  IF Top.left = {prefix} THEN [Top EXCEPT !.at = "close", !.left = {}]
                  ELSE [Top EXCEPT !.left = @ \ {prefix}])
    /\ UNCHANGED <<treeVars, parseVars, enc>>

\* Encode lines 159-170: "/>" and return, or ">" with its error dropped.
EncClose ==
    /\ epc = "run" /\ Top.at = "close"
    /\ LET el == heap[Top.node]
       IN  IF Len(el.children) = 0 /\ Len(el.Content) = 0
           THEN WriteReturn(<<"/", ">">> \o prettyEnd(enc))
           ELSE WriteUnchecked(<<">">>,
                    [Top EXCEPT !.at = IF Len(el.Content) > 0 THEN "content" ELSE "kids"])
    /\ UNCHANGED <<treeVars, parseVars, enc>>

\* Encode lines 171-173: the escaped content, its error dropped.
EncContent ==
    /\ epc = "run" /\ Top.at = "content"
    /\ LET el == heap[Top.node]
       IN  WriteUnchecked(EscapeText(el.Content),
               [Top EXCEPT !.at = IF Len(el.children) > 0 THEN "kids" ELSE "end"])
    /\ UNCHANGED <<treeVars, parseVars, enc>>

\* Encode lines 174-178: one level deeper, and the line end.
EncKids ==
    /\ epc = "run" /\ Top.at = "kids"
    /\ enc' = [enc EXCEPT !.depth = @ + 1]
    /\ WriteThen(prettyEnd(enc), [Top EXCEPT !.at = "child", !.i = 1])
    /\ UNCHANGED <<treeVars, parseVars>>

\* Encode line 180: c.Encode(e).
EncCall ==
    /\ epc = "run" /\ Top.at = "child"
    /\ Top.i <= Len(heap[Top.node].children)
    /\ estack' = Append(estack, Frame(heap[Top.node].children[Top.i]))
    /\ UNCHANGED <<treeVars, parseVars, enc, epc, eret, eres, wlog, sink>>

\* Encode lines 180-182: the child's Encode returned.
EncReturned ==
    /\ epc = "ret"
    /\ IF eret # None
       THEN ReturnE(eret)
       ELSE /\ estack' = [estack EXCEPT ![Len(estack)].i = @ + 1]
            /\ epc' = "run"
            /\ UNCHANGED <<eret, eres>>
    /\ UNCHANGED <<treeVars, parseVars, enc, wlog, sink>>

\* Encode lines 184-187: back one level, and the indentation.
EncAfterKids ==
    /\ epc = "run" /\ Top.at = "child"
    /\ Top.i > Len(heap[Top.node].children)
    /\ enc' = [enc EXCEPT !.depth = @ - 1]
    /\ WriteThen(spaces(enc'), [Top EXCEPT !.at = "end"])
    /\ UNCHANGED <<treeVars, parseVars>>

\* Encode lines 189-192: "</name>".
EncEnd ==
    /\ epc = "run" /\ Top.at = "end"
    /\ LET n == namespacedName(enc, heap[Top.node].Name)
       IN  IF n.panic THEN Panicked
           ELSE WriteThen(EndText(n.s), [Top EXCEPT !.at = "prettyEnd"])
    /\ UNCHANGED <<treeVars, parseVars, enc>>

\* Encode line 193: return e.prettyEnd().
EncPrettyEnd ==
    /\ epc = "run" /\ Top.at = "prettyEnd"
    /\ WriteReturn(prettyEnd(enc))
    /\ UNCHANGED <<treeVars, parseVars, enc>>

\* The bytes the sink took.
RECURSIVE Written(_)
Written(log) ==
    IF log = <<>> THEN <<>>
    ELSE (IF Head(log).ok THEN Head(log).text ELSE <<>>) \o Written(Tail(log))

InitEncoder ==
    /\ enc = NewEncoder
    /\ epc = "idle"
    /\ estack = <<>>
    /\ eret = None
    /\ eres = None
    /\ wlog = <<>>
    /\ sink = [sticky |-> FALSE, failed |-> FALSE, left |-> 0]

InitParser ==
    /\ pc = "idle"
    /\ stream = AnyStream(0)
    /\ stack = <<>>
    /\ ret = NoRet
    /\ elements = <<>>
    /\ peRes = NoResult
    /\ pRes = NoDoc
    /\ seen = NoSeen

Init ==
    /\ heap = <<>>
    /\ last = NoCall
    /\ res = <<>>
    /\ InitParser
    /\ InitEncoder

\* API calls are made while no parse runs.
ApiCall ==
    /\ pc = "idle"
    /\ \/ CreateElementCall
       \/ AddChildCall
       \/ RemoveChildCall
       \/ SetParentCall
       \/ ChildrenCall

Next == ApiCall

Spec == Init /\ [][Next]_vars

\* The tree builder alone: one ParseElements / Parse call on a fresh heap.
NextParse ==
    \/ StartParse(AnyStream(MaxTokens))
    \/ TopToken
    \/ FrameToken
    \/ ResumeFrame
    \/ ResumeTop

SpecParse == Init /\ [][NextParse]_vars

\* Both: a heap is built by API calls, or by one run of the tree builder.
NextAll ==
    \/ ApiCall
    \/ (heap = <<>> /\ StartParse(AnyStream(MaxTokens)))
    \/ TopToken
    \/ FrameToken
    \/ ResumeFrame
    \/ ResumeTop

SpecAll == Init /\ [][NextAll]_vars

\* ------------------------------------------------------------ serialization

\* The trees handed to Encode: every shape of at most MaxNodes elements (element
\* 1 the root, each other element the child of an earlier one, children in the
\* order of their ids), each element one of the given kinds.
Shapes(n) == {pv \in [2..n -> 1..n] : \A i \in 2..n : pv[i] < i}

ChildrenIn(pv, n, i) ==
    LET Is(j) == j > 1 /\ pv[j] = i
    IN  SelectSeq([j \in 1..n |-> j], Is)

BuildHeap(kinds, pv) ==
    [i \in 1..Len(kinds) |->
        [Name |-> kinds[i].Name,
         children |-> ChildrenIn(pv, Len(kinds), i),
         parent |-> IF i = 1 THEN Nil ELSE pv[i],
         Content |-> kinds[i].Content,
         Attributes |-> kinds[i].Attributes]]

Heaps(Kinds) ==
    UNION {{BuildHeap(ks, pv) : ks \in [1..n -> Kinds], pv \in Shapes(n)} :
           n \in 1..MaxNodes}

Kind(name, attrs, content) == [Name |-> name, Attributes |-> attrs, Content |-> content]

\* Elements that use namespaces: explicit xmlns declarations (two of them fight
\* over the prefix p), names in declared and in undeclared namespaces.
EncKinds ==
    {Kind(XmlName(<<>>, <<"a">>), <<>>, <<"x">>),
     Kind(XmlName(<<"u">>, <<"b">>),
          <<XmlAttr(XmlName(<<>>, <<"k">>), <<"v">>),
            XmlAttr(XmlName(XMLNS, <<"p">>), <<"u">>)>>, <<>>),
     Kind(XmlName(<<>>, <<"c">>),
          <<XmlAttr(XmlName(XMLNS, <<"p">>), <<"w">>),
            XmlAttr(XmlName(<<"w">>, <<"k">>), <<"v">>)>>, <<>>),
     Kind(XmlName(<<"z">>, <<"d">>), <<>>, <<>>)}

\* node.Encode(e) on the root, e a new Encoder (compact or Pretty()), the sink
\* one that never fails or one that fails some write.
InitEncode ==
    /\ heap \in Heaps(EncKinds)
    /\ last = NoCall
    /\ res = <<>>
    /\ InitParser
    /\ \E pretty \in BOOLEAN : enc = [NewEncoder EXCEPT !.pretty = pretty]
    /\ epc = "run"
    /\ estack = <<Frame(1)>>
    /\ eret = None
    /\ eres = None
    /\ wlog = <<>>
    /\ sink \in {[sticky |-> FALSE, failed |-> FALSE, left |-> n] : n \in 0..MaxFailures}
                \cup {[sticky |-> TRUE, failed |-> FALSE, left |-> 1]}

NextEncode ==
    \/ EncEnter
    \/ EncOpen
    \/ EncAttr
    \/ EncDecl
    \/ EncClose
    \/ EncContent
    \/ EncKids
    \/ EncCall
    \/ EncReturned
    \/ EncAfterKids
    \/ EncEnd
    \/ EncPrettyEnd

SpecEncode == InitEncode /\ [][NextEncode]_vars

\* Elements without namespaces: plain, with text that needs escaping, with two
\* attributes and inner white space, with text that is not trimmed, and with
\* an attribute value that holds a quote.
RoundKinds ==
    {Kind(XmlName(<<>>, <<"a">>), <<>>, <<>>),
     Kind(XmlName(<<>>, <<"b">>),
          <<XmlAttr(XmlName(<<>>, <<"k">>), <<"v">>)>>, <<"<", "x">>),
     Kind(XmlName(<<>>, <<"c">>),
          <<XmlAttr(XmlName(<<>>, <<"k">>), <<"v">>),
            XmlAttr(XmlName(<<>>, <<"j">>), <<"v", " ", "x">>)>>, <<"x", " ", "x">>),
     Kind(XmlName(<<>>, <<"a">>), <<>>, <<" ", "x">>),
     Kind(XmlName(<<>>, <<"b">>),
          <<XmlAttr(XmlName(<<>>, <<"k">>), <<"\"">>)>>, <<>>)}

\* node.Bytes() or node.Encode(e) into a buffer, then ParseElements / Parse on
\* the bytes written.
InitRound ==
    /\ heap \in Heaps(RoundKinds)
    /\ last = NoCall
    /\ res = <<>>
    /\ InitParser
    /\ \E pretty \in BOOLEAN : enc = [NewEncoder EXCEPT !.pretty = pretty]
    /\ epc = "run"
    /\ estack = <<Frame(1)>>
    /\ eret = None
    /\ eres = None
    /\ wlog = <<>>
    /\ sink = [sticky |-> FALSE, failed |-> FALSE, left |-> 0]

NextRound ==
    \/ EncEnter
    \/ EncOpen
    \/ EncAttr
    \/ EncClose
    \/ EncContent
    \/ EncKids
    \/ EncCall
    \/ EncReturned
    \/ EncAfterKids
    \/ EncEnd
    \/ EncPrettyEnd
    \/ (epc = "done" /\ StartParse(ByteStream(Written(wlog))))
    \/ TopToken
    \/ FrameToken
    \/ ResumeFrame
    \/ ResumeTop

SpecRound == InitRound /\ [][NextRound]_vars

\* ------------------------------------------------------------ properties

Range(s) == {s[i] : i \in 1..Len(s)}
Occurrences(s, x) == Cardinality({i \in 1..Len(s) : s[i] = x})
Without(s, x) == LET Keep(y) == y # x IN SelectSeq(s, Keep)
NamesOf(els) == [i \in 1..Len(els) |-> heap[els[i]].Name]

\* C1: for every pair of elements c and p, c.parent == p if and only if c occurs
\* in p.children, and then it occurs there exactly once.
C1_ParentIffChild ==
    \A c \in Ids, p \in Ids :
        /\ heap[c].parent = p <=> c \in Range(heap[p].children)
        /\ heap[c].parent = p => Occurrences(heap[p].children, c) = 1

\* C1's case: a child with a sibling was moved from one parent to another by
\* AddChild, or the builder attached a second child to an element.
C1_Witness ==
    \/ /\ last.op = "AddChild"
       /\ last.prev \notin {Nil, last.node}
       /\ Len(last.prevKids) >= 2
    \/ /\ pc = "frame"
       /\ Len(heap[stack[Len(stack)]].children) >= 2

\* C6: AddChild(child) on a node, or child.SetParent(node), with child attached
\* to another parent: the prior parent loses exactly child, its other children
\* keep their order, child is appended once as the node's last child, and no
\* element is ever in the children of two parents (or twice in one).
C6_Reparent ==
    /\ \A c \in Ids :
           Cardinality({p \in Ids : c \in Range(heap[p].children)}) <= 1
    /\ (last.op \in {"AddChild", "SetParent"} /\ last.prev \notin {Nil, last.node}) =>
        /\ heap[last.prev].children = Without(last.prevKids, last.child)
        /\ Len(heap[last.prev].children) = Len(last.prevKids) - 1
        /\ heap[last.node].children = Append(last.nodeKids, last.child)
        /\ heap[last.child].parent = last.node
        /\ {p \in Ids : last.child \in Range(heap[p].children)} = {last.node}

\* C6's case: SetParent moved an element that had siblings on both sides.
C6_Witness ==
    /\ last.op = "SetParent"
    /\ last.prev \notin {Nil, last.node}
    /\ Len(last.prevKids) >= 2
    /\ last.prevKids[1] # last.child
    /\ Len(last.nodeKids) >= 1

\* C7: Children() returns the node's children: same length, same elements, same
\* order as node.children.
C7_ChildrenReturnsAll ==
    last.op = "Children" => res = heap[last.node].children

RECURSIVE Climbs(_, _)
Climbs(e, n) ==
    IF e = Nil THEN TRUE
    ELSE IF n = 0 THEN FALSE
    ELSE Climbs(heap[e].parent, n - 1)

\* C10: no element is its own ancestor: following parent from any element
\* reaches an element without a parent.
C10_NoCycles == \A e \in Ids : Climbs(e, Len(heap))

\* C2: a stream read to its end with no error and k top-level elements:
\* ParseElements returns those k in stream order and no error; Parse returns
\* TooManyRootElements and no Document exactly when k >= 2, and otherwise a
\* Document and no error, whose root is the element when k = 1.
C2_Roots ==
    (pc = "done" /\ seen.end = "EOF" /\ seen.endDepth = 0) =>
        LET k == Len(seen.top) IN
        /\ peRes.err = None
        /\ Len(peRes.elements) = k
        /\ NamesOf(peRes.elements) = seen.top
        /\ \A i, j \in 1..k : i < j => peRes.elements[i] < peRes.elements[j]
        /\ \A i \in 1..k : heap[peRes.elements[i]].parent = Nil
        /\ (k >= 2) <=> (pRes.err = TooManyRootElements /\ pRes.doc = NilDocument)
        /\ (k < 2) => (pRes.err = None /\ pRes.doc # NilDocument)
        /\ (k = 1) => pRes.doc[1].root = peRes.elements[1]
        /\ (k = 0) => pRes.doc[1].root = Nil

\* C2's case: a stream with two top-level elements, one of them with a child,
\* was read to its end.
C2_Witness ==
    /\ pc = "done" /\ seen.end = "EOF" /\ seen.endDepth = 0
    /\ Len(seen.top) = 2
    /\ seen.top[1] # seen.top[2]
    /\ Len(heap) = 3

\* C3: the token source fails (end of stream or another error) while a start-tag
\* is open: every open parseElement frame returns no element and the error,
\* ParseElements returns the error and only the top-level elements whose
\* end-tag was read, and Parse returns an error and no Document.
C3_Truncated ==
    (seen.end # None /\ seen.endDepth >= 1) =>
        /\ pc \in {"ret", "done"}
        /\ pc = "ret" => (ret.res = Nil /\ ret.err = seen.end)
        /\ pc = "done" =>
            /\ peRes.err = seen.end
            /\ NamesOf(peRes.elements) = seen.topClosed
            /\ pRes.doc = NilDocument
            /\ pRes.err = seen.end

\* C3's case: the stream ended two start-tags deep, after a complete top-level
\* element, and the call has returned.
C3_Witness ==
    /\ pc = "done"
    /\ seen.end = "EOF" /\ seen.endDepth >= 2
    /\ Len(seen.topClosed) >= 1

NotBlank(t) == \E i \in 1..Len(t) : t[i] \notin Whitespace
IsTrimOf(v, t) ==
    /\ v # <<>>
    /\ v[1] \notin Whitespace /\ v[Len(v)] \notin Whitespace
    /\ \E i \in 0..Len(t) :
           /\ i + Len(v) <= Len(t)
           /\ SubSeq(t, i + 1, i + Len(v)) = v
           /\ \A j \in (1..i) \cup ((i + Len(v) + 1)..Len(t)) : t[j] \in Whitespace

\* C9: the content of an element whose end-tag was read is the trimmed value of
\* the last text token of its own frame that is not all white space, and
\* nothing when there is none.
C9_Content ==
    (pc = "ret" /\ ret.err = None) =>
        LET nb == SelectSeq(seen.closedTexts, NotBlank)
            content == heap[ret.res].Content
        IN  IF nb = <<>> THEN content = <<>> ELSE IsTrimOf(content, nb[Len(nb)])

\* C9's case: an element closed after two different non-blank texts and a
\* blank one.
C9_Witness ==
    /\ pc = "ret" /\ ret.err = None
    /\ Len(seen.closedTexts) = 3
    /\ NotBlank(seen.closedTexts[1])
    /\ NotBlank(seen.closedTexts[2])
    /\ seen.closedTexts[1] # seen.closedTexts[2]
    /\ ~NotBlank(seen.closedTexts[3])

IsDecl(text) ==
    /\ Len(text) >= 7
    /\ SubSeq(text, 1, 7) = <<" ">> \o XMLNS \o <<":">>
IsAttr(text) ==
    /\ text[1] = " "
    /\ \E k \in 1..Len(text) : text[k] = "="
    /\ ~IsDecl(text)
ClosesOpenTag(text) == text = <<">">> \/ (Len(text) >= 2 /\ SubSeq(text, 1, 2) = <<"/", ">">>)
Decls == {i \in 1..Len(wlog) : IsDecl(wlog[i].text)}
RootTagClosed ==
    \E i \in 1..Len(wlog) : wlog[i].node = 1 /\ wlog[i].ok /\ ClosesOpenTag(wlog[i].text)

\* The part of C5 that does not count the bindings: declarations only on the
\* first element, after its attributes, no text twice, each a discovered binding.
C5_DeclaredOnFirstOnly ==
    /\ \A i \in Decls : wlog[i].node = 1
    /\ \A i \in Decls : \A j \in (i + 1)..Len(wlog) :
           wlog[j].node = 1 => ~IsAttr(wlog[j].text)
    /\ \A i \in Decls, j \in Decls : i # j => wlog[i].text # wlog[j].text
    /\ \A i \in Decls : \E uri \in DOMAIN enc.nsURLMap :
           wlog[i].text = DeclText(enc.nsURLMap[uri], uri)

\* C5: in one Encode call on a root with a new Encoder, xmlns: declarations are
\* written only on the first element, after its own attributes, each once, each
\* a discovered binding; and once the first element's opening tag is closed,
\* every discovered URI-to-prefix binding has been declared exactly once.
C5_Declarations ==
    /\ C5_DeclaredOnFirstOnly
    /\ RootTagClosed =>
           \A uri \in DOMAIN enc.nsURLMap :
               Cardinality({i \in Decls :
                   wlog[i].text = DeclText(enc.nsURLMap[uri], uri)}) = 1

Failed == {i \in 1..Len(wlog) : ~wlog[i].ok}

\* C8: once a write to the sink has failed, Encode makes no further write, every
\* open Encode frame returns the error, and the outermost call returns it.
C8_SinkErrorsSurface ==
    Failed # {} =>
        /\ Failed = {Len(wlog)}
        /\ epc \in {"ret", "done"}
        /\ epc = "ret" => eret = WriteError
        /\ epc = "done" => eres = WriteError

RECURSIVE TreeOf(_, _)
TreeOf(h, id) ==
    [Name |-> h[id].Name, Attributes |-> h[id].Attributes, Content |-> h[id].Content,
     kids |-> [i \in 1..Len(h[id].children) |-> TreeOf(h, h[id].children[i])]]

RECURSIVE Subtree(_, _)
Subtree(h, id) ==
    {id} \cup UNION {Subtree(h, h[id].children[i]) : i \in 1..Len(h[id].children)}

NoNamespaces ==
    \A n \in Subtree(heap, 1) :
        /\ heap[n].Name.Space = <<>>
        /\ \A i \in 1..Len(heap[n].Attributes) : heap[n].Attributes[i].Name.Space = <<>>

RoundTripEqual ==
    /\ peRes.err = None
    /\ Len(peRes.elements) = 1
    /\ TreeOf(heap, peRes.elements[1]) = TreeOf(heap, 1)
    /\ pRes.err = None
    /\ pRes.doc # NilDocument
    /\ pRes.doc[1].root = peRes.elements[1]

TrimmedContent(c) ==
    c = <<>> \/ (c[1] \notin Whitespace /\ c[Len(c)] \notin Whitespace)
PlainValue(v) == \A i \in 1..Len(v) : v[i] \notin {"\"", "<", "&", "\r"}
MarkupSafe ==
    \A n \in Subtree(heap, 1) :
        /\ TrimmedContent(heap[n].Content)
        /\ \A i \in 1..Len(heap[n].Attributes) : PlainValue(heap[n].Attributes[i].Value)

====
